---- MODULE Spec2Model ----
(***************************************************************************)
(* Model of GalaxyMorphologyArt/galaxy_morphology_art.py: the data source  *)
(* adapter (fetch_galaxy_data with its probe and synthetic fallback), the  *)
(* derived-metrics pass (_add_basic_morphology,                            *)
(* _calculate_morphology_params), the render passes with the summary file  *)
(* and the redshift colour mapping; and of                                 *)
(* SatelliteConstellationTrails/satellite_visualizer.py: load_satellites,  *)
(* the animation tick (update_animation) and the menu loop of main().      *)
(*                                                                         *)
(* Specifications: Spec (calls of fetch_galaxy_data), SpecMetrics (the     *)
(* derived-metrics pass on bounded tables), SpecRender (main's fetch and   *)
(* the render passes), SpecColor (main's fetch and colour queries),        *)
(* SpecLoad (construction of a SatelliteVisualizer), SpecAnim (a           *)
(* constructed visualizer that is animated), SpecMenu (the satellite       *)
(* program's main() from its visualizer on).                               *)
(*                                                                         *)
(* Numbers are fixed point, in hundredths (0.5 is 50, 0.01 is 1).  A       *)
(* quotient is kept exact as a record [num, den]; den = 0 is what IEEE     *)
(* division gives for a zero denominator (inf or NaN).                     *)
(* A DataFrame is a record [none, n, col]: col maps the names of the       *)
(* columns present to sequences of n cells.                                *)
(***************************************************************************)
EXTENDS Integers, Sequences, FiniteSets, TLC

\* ---------------------------------------------------------------- bounds
RngMod == 4
MaxSmall == 2
MaxOver == 1
MaxRows == 2
MaxPasses == 2
MaxSince == 2
MaxBlocks == 2
MaxTrail == 2
MaxTicks == 3

\* ------------------------------------------------------ program constants
Seed == 42
ProbeThreshold == 25
FlagThreshold == 50
Epsilon == 1
MainLimit == 50
MaxSatellites == 100

\* ------------------------------------------------------------- the tables
NoColumns == [c \in {} |-> <<>>]
None == [none |-> TRUE, n |-> 0, col |-> NoColumns]

Columns(t) == DOMAIN t.col

HasCol(t, c) == c \in Columns(t)

\* df[c] = cells : adds the column, or replaces it when it is there
SetCol(t, c, cells) ==
    [t EXCEPT !.col = [d \in (DOMAIN t.col) \cup {c} |->
                          IF d = c THEN cells ELSE t.col[d]]]

\* ------------------------------------------------ numpy's global generator
\* the stride of one variate; it has no factor in common with RngMod
RngStride == RngMod - 1

\* the state after k variates were drawn
RngAdvance(s, k) == (s + RngStride * k) % RngMod

\* the k raw variates a call of size k consumes, in order
RawDraws(s, k) == [i \in 1..k |-> RngAdvance(s, i)]

SeedState == Seed % RngMod

Uniform(lo, hi, u) == lo + ((hi - lo) * u) \div RngMod

\* a beta variate lies strictly between 0 and 1
Beta(u) == 1 + (98 * u) \div (RngMod - 1)

\* a log-normal variate is strictly positive
LogNormal(median, u) == 1 + (2 * median * u) \div RngMod

Normal(mean, sd, u) == mean + (3 * sd * (2 * u - (RngMod - 1))) \div RngMod

\* ----------------------------------------------------- derived metrics
Ratio(a, b) == [num |-> a, den |-> b]

\* the ratio without the 0.01
ConcentrationUnguarded(r90, r50) == Ratio(r90, r50)

\* the 0.01 as a floor under the denominator
ConcentrationFloored(r90, r50) ==
    Ratio(r90, IF r50 > Epsilon THEN r50 ELSE Epsilon)

\* lines 242-245: the ratio of the radii, 0.01 added to the denominator
Concentration(r90, r50) == Ratio(r90, r50 + Epsilon)

\* the difference taken the other way round
ColorIndexSwapped(a, b) == b - a

\* lines 249-251 and 253-255: a difference of two magnitudes
ColorIndex(a, b) == a - b

\* _calculate_morphology_params
CalculateMorphologyParams(t) ==
    LET t1 == IF HasCol(t, "petroR50_r") /\ HasCol(t, "petroR90_r")
              THEN SetCol(t, "concentration",
                     [i \in 1..t.n |-> Concentration(t.col["petroR90_r"][i],
                                                     t.col["petroR50_r"][i])])
              ELSE t
        t2 == IF HasCol(t1, "dered_g") /\ HasCol(t1, "dered_r")
              THEN SetCol(t1, "g_r_color",
                     [i \in 1..t.n |-> ColorIndex(t1.col["dered_g"][i],
                                                  t1.col["dered_r"][i])])
              ELSE t1
        t3 == IF HasCol(t2, "dered_r") /\ HasCol(t2, "dered_i")
              THEN SetCol(t2, "r_i_color",
                     [i \in 1..t.n |-> ColorIndex(t2.col["dered_r"][i],
                                                  t2.col["dered_i"][i])])
              ELSE t2
    IN t3

\* the threshold itself counted as spiral-side
EllipticalFlagsStrict(t) ==
    [i \in 1..t.n |-> IF t.col["fracDeV_r"][i] > FlagThreshold THEN 1 ELSE 0]

\* lines 163 and 233
EllipticalFlags(t) ==
    [i \in 1..t.n |-> IF t.col["fracDeV_r"][i] >= FlagThreshold THEN 1 ELSE 0]

\* lines 164 and 232
SpiralFlags(t) ==
    [i \in 1..t.n |-> IF t.col["fracDeV_r"][i] < FlagThreshold THEN 1 ELSE 0]

\* _add_basic_morphology on table t with the generator in state s:
\* [table, rng, raised]; raised is the KeyError of line 176, which leaves
\* the columns assigned before it in place
AddBasicMorphology(t, s) ==
    IF t.none THEN [table |-> t, rng |-> s, raised |-> FALSE]
    ELSE
    LET drawFrac == ~HasCol(t, "deVAB_r")
        t1 == IF drawFrac
              THEN SetCol(t, "fracDeV_r",
                     [i \in 1..t.n |-> Beta(RawDraws(s, t.n)[i])])
              ELSE SetCol(t, "fracDeV_r", t.col["deVAB_r"])
        s1 == IF drawFrac THEN RngAdvance(s, t.n) ELSE s
        t2 == SetCol(t1, "elliptical", EllipticalFlags(t1))
        t3 == SetCol(t2, "spiral", SpiralFlags(t2))
        t4 == IF HasCol(t3, "g") /\ HasCol(t3, "r")
              THEN LET a == SetCol(t3, "dered_g", t3.col["g"])
                       b == SetCol(a, "dered_r", a.col["r"])
                   IN IF HasCol(b, "i") THEN SetCol(b, "dered_i", b.col["i"])
                      ELSE b
              ELSE t3
    IN IF HasCol(t4, "redshift")
       THEN [table |-> t4, rng |-> s1, raised |-> FALSE]
       ELSE IF ~HasCol(t4, "petroMag_r")
       THEN [table |-> t4, rng |-> s1, raised |-> TRUE]
       ELSE [table |-> SetCol(t4, "redshift",
                  [i \in 1..t.n |->
                      (Beta(RawDraws(s1, t.n)[i]) * 30
                          * (t4.col["petroMag_r"][i] - 1000)) \div 50000]),
             rng |-> RngAdvance(s1, t.n), raised |-> FALSE]

\* ----------------------------------------------------- synthetic generator
\* the eleven sampled columns, in the order the dictionary draws them
SyntheticRaw(s, n) ==
    LET D(k) == [i \in 1..n |-> RngAdvance(s, k * n + i)]
    IN [c \in {"ra", "dec", "redshift", "petroR50_r", "petroR90_r",
               "fracDeV_r", "modelMag_r", "expAB_r",
               "dered_g", "dered_r", "dered_i"} |->
         [i \in 1..n |->
            CASE c = "ra"         -> Uniform(14800, 15200, D(0)[i])
              [] c = "dec"        -> Uniform(80, 120, D(1)[i])
              [] c = "redshift"   -> (Beta(D(2)[i]) * 30) \div 100
              [] c = "petroR50_r" -> LogNormal(272, D(3)[i])
              [] c = "petroR90_r" -> LogNormal(448, D(4)[i])
              [] c = "fracDeV_r"  -> Beta(D(5)[i])
              [] c = "modelMag_r" -> Normal(1700, 150, D(6)[i])
              [] c = "expAB_r"    -> Uniform(30, 90, D(7)[i])
              [] c = "dered_g"    -> Normal(1800, 150, D(8)[i])
              [] c = "dered_r"    -> Normal(1700, 150, D(9)[i])
              [] c = "dered_i"    -> Normal(1650, 150, D(10)[i])]]

\* lines 217-235: the table of n rows sampled from state s0 on: [table, rng]
SyntheticFrom(s0, n) ==
    LET t0 == [none |-> FALSE, n |-> n, col |-> SyntheticRaw(s0, n)]
        t1 == SetCol(t0, "spiral", SpiralFlags(t0))
        t2 == SetCol(t1, "elliptical", EllipticalFlags(t1))
    IN [table |-> CalculateMorphologyParams(t2),
        rng |-> RngAdvance(s0, 11 * n)]

\* the generator left as the caller found it
GenerateSyntheticDataUnseeded(s, n) == SyntheticFrom(s, n)

\* one row short
GenerateSyntheticDataShort(s, n) == SyntheticFrom(SeedState, n - 1)

\* _generate_synthetic_data(n) with the generator in state s: line 214
\* seeds it, whatever s is
GenerateSyntheticData(s, n) == SyntheticFrom(SeedState, n)

\* ------------------------------------------------------ the live source
\* the row counts asked for: small ones, ones around the probe threshold,
\* and the one main() asks for
Limits == (1..MaxSmall) \cup (ProbeThreshold..(ProbeThreshold + MaxOver))
          \cup {MainLimit}

RngStates == 0..(RngMod - 1)

\* the columns the query selects (lines 37-42)
QueryColumns == {"objid", "ra", "dec", "u", "g", "r", "i", "z",
                 "petroR50_r", "petroR90_r", "deVAB_r", "expAB_r",
                 "petroMag_r"}

\* the other column sets a parsed response may have: the ones the code
\* tests for (lines 156, 167, 170, 176)
Schemas == {QueryColumns \ {"deVAB_r"}, QueryColumns \ {"petroMag_r"},
            QueryColumns \ {"i"}, QueryColumns \ {"g"}}

\* rows that satisfy the query's WHERE clause (lines 44-49); they differ in
\* the side of the morphology threshold deVAB_r falls on
LiveRow(d) == [c \in QueryColumns |->
    CASE c = "objid"      -> 1000 + d
      [] c = "ra"         -> 15000 + d
      [] c = "dec"        -> -100
      [] c = "u"          -> 1900
      [] c = "g"          -> 1800 + d
      [] c = "r"          -> 1700
      [] c = "i"          -> 1650
      [] c = "z"          -> 1600
      [] c = "petroR50_r" -> 100 + d
      [] c = "petroR90_r" -> 400
      [] c = "deVAB_r"    -> d
      [] c = "expAB_r"    -> 60
      [] c = "petroMag_r" -> 1500 + d]

DeVValues == <<20, FlagThreshold, 90>>

\* the k rows that start at the j-th value of deVAB_r and cycle on
LiveRowSeq(j, k) ==
    [i \in 1..k |-> LiveRow(DeVValues[((j + i - 2) % Len(DeVValues)) + 1])]

RowSeqs(m) == {LiveRowSeq(j, k) : j \in 1..Len(DeVValues), k \in 0..m}

\* pd.read_csv of a well-formed body with header S and data rows rs
ReadCsv(S, rs) ==
    [none |-> FALSE, n |-> Len(rs),
     col |-> [c \in S |-> [i \in 1..Len(rs) |-> rs[i][c]]]]

Min(a, b) == IF a <= b THEN a ELSE b

\* TOP limit returns at most limit rows; the column sets other than the
\* query's are tried on a table of one row
LiveTables(limit) ==
    {ReadCsv(QueryColumns, rs) : rs \in RowSeqs(Min(limit, MaxRows))}
    \cup {ReadCsv(S, LiveRowSeq(2, 1)) : S \in Schemas}

\* what requests.get(url, params, timeout=30) can do for TOP limit:
\*   kind   "timeout" | "error" (any other exception) | "http"
\*   status of an http response
\*   html   the body starts with '<' or has 'html' in its first 100 chars
\*   csv    "ok" | "parse_error" (pd.errors.ParserError)
\*               | "no_data" (pd.errors.EmptyDataError)
\*   table  what pd.read_csv returns when csv = "ok"
\*   comment  the first line of the body starts with '#'; csv and table then
\*            describe the lines after it
Response(kind, status, html, csv, table) ==
    [kind |-> kind, status |-> status, html |-> html, csv |-> csv,
     table |-> table, comment |-> FALSE]

\* the same body under a '#Table1' line, as SDSS sends it
WithComment(resp) == [resp EXCEPT !.comment = TRUE]

NoResponse == Response("none", 0, FALSE, "ok", None)

Responses(limit) ==
    {Response("timeout", 0, FALSE, "ok", None),
     Response("error", 0, FALSE, "ok", None),
     Response("http", 500, FALSE, "ok", None),
     Response("http", 200, TRUE, "ok", None),
     Response("http", 200, FALSE, "parse_error", None),
     Response("http", 200, FALSE, "no_data", None)}
    \cup {Response("http", 200, FALSE, "ok", t) : t \in LiveTables(limit)}
    \cup {WithComment(Response("http", 200, TRUE, "ok", None)),
          WithComment(Response("http", 200, FALSE, "no_data", None))}
    \cup {WithComment(Response("http", 200, FALSE, "ok",
                                ReadCsv(QueryColumns, LiveRowSeq(1, k)))) :
              k \in 0..Min(limit, MaxRows)}

\* what the probe's requests.get(..., timeout=15) can do: it raises, or
\* answers with a status and a body of len characters
Probe(raises, status, len) ==
    [raises |-> raises, status |-> status, len |-> len]

NoProbe == Probe(FALSE, 0, 0)

ProbeOutcomes == {Probe(TRUE, 0, 0), Probe(FALSE, 500, 51),
                  Probe(FALSE, 200, 50), Probe(FALSE, 200, 51)}

\* _test_sdss_connection: every exception is caught and reported as False
TestSdssConnection(p) == ~p.raises /\ p.status = 200 /\ p.len > 50

\* the threshold itself counted as large
NeedsProbeInclusive(limit) == limit >= ProbeThreshold

\* line 61: large requests are probed first
NeedsProbe(limit) == limit > ProbeThreshold

\* the check for data rows left out
IsEmptyDatasetIgnored(t) == FALSE

\* line 94: a response without data rows
IsEmptyDataset(t) == t.n = 0

\* what the file system does to _save_sdss_data_to_csv
FsOutcomes == {"ok", "mkdir_fail", "write_fail"}

\* the file written before the derived-metrics pass
SaveSdssDataToCsvEarly(t, fs) ==
    CASE fs = "mkdir_fail" -> [raised |-> TRUE, file |-> None]
      [] fs = "write_fail" -> [raised |-> FALSE, file |-> None]
      [] OTHER             ->
            [raised |-> FALSE,
             file |-> [t EXCEPT !.col =
                         [c \in Columns(t) \ {"concentration"} |-> t.col[c]]]]

\* _save_sdss_data_to_csv: [raised, file]; os.makedirs (line 188) is outside
\* the try block, DataFrame.to_csv (line 197) inside it
SaveSdssDataToCsv(t, fs) ==
    CASE fs = "mkdir_fail" -> [raised |-> TRUE, file |-> None]
      [] fs = "write_fail" -> [raised |-> FALSE, file |-> None]
      [] OTHER             -> [raised |-> FALSE, file |-> t]

\* what a call leaves: the return value, self.galaxy_data and the
\* assignment that set it last (source), the generator, the requests issued
Outcome(r, data, source, s, reqs, why, file) ==
    [ret |-> r, data |-> data, source |-> source, rng |-> s, reqs |-> reqs,
     failure |-> why, file |-> file]

\* _generate_synthetic_data tabulated over the calls the model makes
Generated == [s \in RngStates, n \in Limits |-> GenerateSyntheticData(s, n)]

\* a fallback that reports success
FallbackReportsLive(s, limit, reqs, why) ==
    LET g == Generated[s, limit]
    IN Outcome("True", g.table, "synthetic", g.rng, reqs, why, None)

\* the fallback of lines 67-68, 119-120, 128-129 and 133-134
Fallback(s, limit, reqs, why) ==
    LET g == Generated[s, limit]
    IN Outcome("False", g.table, "synthetic", g.rng, reqs, why, None)

\* every body read whole
CsvContentWhole(resp) == "whole"

\* lines 86-90: the text handed to pd.read_csv, the body without its first
\* line when that line starts with '#', the whole body otherwise
CsvContent(resp) == IF resp.comment THEN "rest" ELSE "whole"

\* line 92: pd.read_csv of that text, [csv, table]; a '#' line read as the
\* header has one field where the lines after it have several
ReadCsvContent(resp, content) ==
    IF resp.comment /\ content = "whole"
    THEN [csv |-> "parse_error", table |-> None]
    ELSE [csv |-> resp.csv, table |-> resp.table]

\* fetch_galaxy_data(limit) with the generator in state s; probe, resp and
\* fs are what the network and the file system answer
FetchGalaxyData(s, limit, probe, resp, fs) ==
    IF NeedsProbe(limit) /\ ~TestSdssConnection(probe)
    THEN Fallback(s, limit, <<"probe">>, "probe")
    ELSE
    LET reqs == IF NeedsProbe(limit) THEN <<"probe", "main">>
                ELSE <<"main">>
        parsed == ReadCsvContent(resp, CsvContent(resp))
    IN CASE resp.kind = "timeout" -> Fallback(s, limit, reqs, "timeout")
         [] resp.kind = "error"   -> Fallback(s, limit, reqs, "error")
         [] resp.kind = "http" /\ resp.status # 200 ->
                Fallback(s, limit, reqs, "status")
         [] resp.kind = "http" /\ resp.status = 200 /\ resp.html ->
                Fallback(s, limit, reqs, "html")
         [] resp.kind = "http" /\ resp.status = 200 /\ ~resp.html
               /\ parsed.csv = "parse_error" ->
                Fallback(s, limit, reqs, "parse")
         [] resp.kind = "http" /\ resp.status = 200 /\ ~resp.html
               /\ parsed.csv = "no_data" ->
                Fallback(s, limit, reqs, "empty")
         [] OTHER ->
            LET t == parsed.table
                a == AddBasicMorphology(t, s)
                d == CalculateMorphologyParams(a.table)
                w == SaveSdssDataToCsv(d, fs)
            IN IF IsEmptyDataset(t) THEN Fallback(s, limit, reqs, "empty")
               ELSE IF a.raised
               THEN Fallback(a.rng, limit, reqs, "keyerror")
               ELSE IF w.raised THEN Fallback(a.rng, limit, reqs, "mkdir")
               ELSE Outcome("True", d, "live", a.rng, reqs, "none", w.file)

\* ------------------------------------------------------- the render passes
\* the cells of column c of table t
Cells(t, c) == {t.col[c][i] : i \in 1..t.n}

SeqMin(S) == CHOOSE m \in S : \A x \in S : m <= x

SeqMax(S) == CHOOSE m \in S : \A x \in S : m >= x

\* sum() of a column of 0/1 flags
FlagSum(t, c) == Cardinality({i \in 1..t.n : t.col[c][i] = 1})

\* the columns every chart indexes (lines 355, 360, 427, 642-644)
RenderColumns == {"ra", "dec", "redshift"}

\* line 343-346: the shape the sky map gives row i
IsEllipticalShape(t, i) ==
    IF HasCol(t, "fracDeV_r") THEN t.col["fracDeV_r"][i] > FlagThreshold
    ELSE IF HasCol(t, "elliptical") THEN t.col["elliptical"][i] = 1
    ELSE FALSE

\* draws of _plot_morphological_sky: a size where there is no modelMag_r
\* (line 352), one angle for an ellipse (362), three for a spiral (366)
SkyDraws(t) ==
    (IF HasCol(t, "modelMag_r") THEN 0 ELSE t.n)
    + Cardinality({i \in 1..t.n : IsEllipticalShape(t, i)})
    + 3 * Cardinality({i \in 1..t.n : ~IsEllipticalShape(t, i)})

\* draws of _plot_size_redshift_bubbles: the sizes where there is no
\* petroR50_r (line 460), and the default of line 471, always evaluated
BubbleDraws(t) == (IF HasCol(t, "petroR50_r") THEN 0 ELSE t.n) + t.n

\* draws of _plot_concentration_spiral: the sizes where there is no
\* concentration (line 604), one angle per galaxy (lines 507, 556)
SpiralDraws(t) == (IF HasCol(t, "concentration") THEN 0 ELSE t.n) + t.n

\* what the plotting libraries do: "ok", or "qhull" when the triangulation
\* of lines 386 and 429 rejects the points
PlotOutcomes == {"ok", "qhull"}

\* a render that sorts the table where it stands
CreateMorphologyArtSorting(t, s, plot) ==
    [table |-> IF t.none THEN t
               ELSE [t EXCEPT !.col = [c \in Columns(t) |->
                        [i \in 1..t.n |-> t.col[c][t.n + 1 - i]]]],
     rng |-> s, raised |-> t.none]

\* create_morphology_art on self.galaxy_data = t with the generator in
\* state s: [table, rng, raised].  Without a table line 308 calls a method
\* the class does not have; the sort of line 586 makes a copy
CreateMorphologyArt(t, s, plot) ==
    IF t.none THEN [table |-> t, rng |-> s, raised |-> TRUE]
    ELSE IF ~(RenderColumns \subseteq Columns(t))
    THEN [table |-> t, rng |-> s, raised |-> TRUE]
    ELSE IF plot = "qhull"
    THEN [table |-> t, rng |-> RngAdvance(s, SkyDraws(t)), raised |-> TRUE]
    ELSE [table |-> t,
          rng |-> RngAdvance(s, SkyDraws(t) + BubbleDraws(t)
                                  + SpiralDraws(t)),
          raised |-> FALSE]

\* create_interactive_3d_view: [table, rng, raised]; it draws nothing from
\* the generator and indexes None at line 642 when there is no table
CreateInteractive3dView(t, s) ==
    [table |-> t, rng |-> s,
     raised |-> t.none \/ ~(RenderColumns \subseteq Columns(t))]

\* the summary file of lines 729-743; NoSummary where none was written
NoSummary == [written |-> FALSE]

\* min() and max() of column c: NaN for a column without cells
ColumnRange(t, c) ==
    IF t.n = 0 THEN [nan |-> TRUE, lo |-> 0, hi |-> 0]
    ELSE [nan |-> FALSE, lo |-> SeqMin(Cells(t, c)),
          hi |-> SeqMax(Cells(t, c))]

\* a summary that counts one galaxy too few
SummaryOfShort(t) ==
    [written |-> TRUE, total |-> t.n - 1,
     redshift |-> ColumnRange(t, "redshift"),
     spiral |-> IF HasCol(t, "spiral") THEN FlagSum(t, "spiral") ELSE -1,
     elliptical |-> IF HasCol(t, "elliptical")
                    THEN FlagSum(t, "elliptical") ELSE -1,
     columns |-> Columns(t)]

\* lines 731-743: the total, the redshift range, the two counts where the
\* columns are there (-1 where not), the column names
SummaryOf(t) ==
    [written |-> TRUE, total |-> t.n,
     redshift |-> ColumnRange(t, "redshift"),
     spiral |-> IF HasCol(t, "spiral") THEN FlagSum(t, "spiral") ELSE -1,
     elliptical |-> IF HasCol(t, "elliptical")
                    THEN FlagSum(t, "elliptical") ELSE -1,
     columns |-> Columns(t)]

\* save_visualizations on self.galaxy_data = t: [table, rng, raised,
\* summary].  os.makedirs (line 711) and savefig (line 717) may fail; the
\* summary is written last
SaveVisualizations(t, s, plot, fs) ==
    LET art == CreateMorphologyArt(t, s, plot)
        view == CreateInteractive3dView(art.table, art.rng)
    IN IF fs = "mkdir_fail"
       THEN [table |-> t, rng |-> s, raised |-> TRUE, summary |-> NoSummary]
       ELSE IF art.raised \/ fs = "write_fail"
       THEN [table |-> art.table, rng |-> art.rng, raised |-> TRUE,
             summary |-> NoSummary]
       ELSE IF view.raised
       THEN [table |-> view.table, rng |-> view.rng, raised |-> TRUE,
             summary |-> NoSummary]
       ELSE [table |-> view.table, rng |-> view.rng, raised |-> FALSE,
             summary |-> SummaryOf(view.table)]

\* ---------------------------------------------------- the colour mapping
\* lines 269-274 and 289-293: the range both functions normalise with, the
\* table's redshift column where there is one, 0.0 to 0.3 where not
RedshiftRange(t) ==
    IF ~t.none /\ HasCol(t, "redshift")
    THEN LET r == ColumnRange(t, "redshift") IN [lo |-> r.lo, hi |-> r.hi]
    ELSE [lo |-> 0, hi |-> 30]

\* np.clip(q, 0, 1) of a quotient with a denominator >= 0: +inf and -inf
\* are clipped, NaN (0/0) stays NaN
Clip01(q) ==
    IF q.den = 0
    THEN IF q.num > 0 THEN Ratio(1, 1)
         ELSE IF q.num < 0 THEN Ratio(0, 1) ELSE q
    ELSE IF q.num < 0 THEN Ratio(0, q.den)
    ELSE IF q.num > q.den THEN Ratio(q.den, q.den)
    ELSE q

\* line 281: 0.3 + z_norm * 0.7, the position in plasma; NaN for NaN
PlasmaRange(q) == Ratio(3 * q.den + 7 * q.num, 10 * q.den)

\* redshift_to_color(z) for an array z, on self.galaxy_data = t: the
\* positions in plasma the colours are taken from (lines 277-283)
RedshiftToColor(t, z) ==
    LET r == RedshiftRange(t)
    IN [i \in 1..Len(z) |->
          PlasmaRange(Clip01(Ratio(z[i] - r.lo, r.hi - r.lo)))]

\* get_redshift_colormap_info(): the limits of the Normalize it returns;
\* its colormap is plasma from 0.3 to 1.0 (lines 299-302)
GetRedshiftColormapInfo(t) ==
    [vmin |-> RedshiftRange(t).lo, vmax |-> RedshiftRange(t).hi]

\* plt.Normalize(vmin, vmax) applied to v: 0 for vmin = vmax
Normalize(norm, v) ==
    IF norm.vmin = norm.vmax THEN Ratio(0, 1)
    ELSE Ratio(v - norm.vmin, norm.vmax - norm.vmin)

\* the position in plasma that the colormap of line 299 takes the colour
\* of a normalised value from; values under 0 and over 1 take the end colours
PlasmaWarm(q) == PlasmaRange(Clip01(q))

\* the positions a chart that colours through (cmap, norm) gives array z
ColormapPositions(t, z) ==
    LET norm == GetRedshiftColormapInfo(t)
    IN [i \in 1..Len(z) |-> PlasmaWarm(Normalize(norm, z[i]))]

\* =============================== SatelliteConstellationTrails: the loader
\* the sources in the order the dictionary of lines 148-154 yields them
SatelliteSources == <<"ISS & Crew Vehicles", "Starlink", "GPS Constellation",
                      "Bright Satellites", "Weather Satellites">>

\* self.category_colors.get(category, '#FFFFFF') (lines 35-41 and 178)
CategoryColor(category) ==
    CASE category = "ISS & Crew Vehicles" -> "#FF4444"
      [] category = "Starlink"            -> "#44FF44"
      [] category = "GPS Constellation"   -> "#4444FF"
      [] category = "Bright Satellites"   -> "#FFFF44"
      [] category = "Weather Satellites"  -> "#FF44FF"
      [] OTHER                            -> "#FFFFFF"

\* a line of a response: a satellite's name, a first or a second element
\* line that EarthSatellite accepts, or anything else
Line(kind, id) == [kind |-> kind, id |-> id]

\* EarthSatellite(line1, line2, name, ts) does not raise (line 174)
ParsesTle(line1, line2) == line1.kind = "l1" /\ line2.kind = "l2"

\* block starts that stop one block early
BlockStartsShort(n) ==
    {i \in 0..(n - 1) : i % 3 = 0 /\ i < n - 3 /\ i + 2 < n}

\* lines 167-168: the indices range(0, len(lines) - 2, 3) yields, under the
\* test i + 2 < len(lines)
BlockStarts(n) ==
    {i \in 0..(n - 1) : i % 3 = 0 /\ i < n - 2 /\ i + 2 < n}

\* what requests.get(url, timeout=10) and raise_for_status() give for one
\* source: an exception, or the lines of response.text.strip().split('\n')
Failed == [fails |-> TRUE, lines |-> <<>>]

Answer(lines) == [fails |-> FALSE, lines |-> lines]

\* a source given up at its first block that does not parse
SourceBlocksUntilBad(category, answer) ==
    IF answer.fails THEN <<>>
    ELSE LET n == Cardinality(BlockStarts(Len(answer.lines)))
             Bad == {j \in 1..n : ~ParsesTle(answer.lines[3 * j - 1],
                                              answer.lines[3 * j])}
             last == IF Bad = {} THEN n ELSE SeqMin(Bad)
         IN [j \in 1..last |->
               [category |-> category,
                name |-> answer.lines[3 * j - 2],
                line1 |-> answer.lines[3 * j - 1],
                line2 |-> answer.lines[3 * j],
                parses |-> ParsesTle(answer.lines[3 * j - 1],
                                     answer.lines[3 * j])]]

\* the blocks of one source, in order (lines 169-171)
SourceBlocks(category, answer) ==
    IF answer.fails THEN <<>>
    ELSE [j \in 1..Cardinality(BlockStarts(Len(answer.lines))) |->
            [category |-> category,
             name |-> answer.lines[3 * j - 2],
             line1 |-> answer.lines[3 * j - 1],
             line2 |-> answer.lines[3 * j],
             parses |-> ParsesTle(answer.lines[3 * j - 1],
                                  answer.lines[3 * j])]]

\* the dictionary entry of lines 175-179
Entry(block) ==
    [satellite |-> <<block.line1, block.line2>>,
     category |-> block.category,
     color |-> CategoryColor(block.category)]

\* load_satellites (lines 146-192) with answers[k] what source k gives:
\* [satellites, log].  The blocks of the sources are taken in order until
\* the one whose entry brings len(self.satellites) to cap (lines 182 and
\* 187); an entry under a name already there replaces the earlier one.
\* log[k] tells whether source k was requested, the number of blocks handed
\* to EarthSatellite and the entries stored from it
LoadUpTo(answers, cap) ==
    LET B(k) == SourceBlocks(SatelliteSources[k], answers[k])
        all == B(1) \o B(2) \o B(3) \o B(4) \o B(5)
        Held(p) == Cardinality({all[q].name :
                                  q \in {r \in 1..p : all[r].parses}})
        capped == Held(Len(all)) >= cap
        stop == IF ~capped THEN Len(all)
                ELSE CHOOSE p \in 1..Len(all) :
                        Held(p) >= cap
                        /\ Held(p - 1) < cap
        Offset(k) == IF k = 1 THEN 0
                     ELSE IF k = 2 THEN Len(B(1))
                     ELSE IF k = 3 THEN Len(B(1)) + Len(B(2))
                     ELSE IF k = 4 THEN Len(B(1)) + Len(B(2)) + Len(B(3))
                     ELSE Len(B(1)) + Len(B(2)) + Len(B(3)) + Len(B(4))
        Attempted(k) == IF stop - Offset(k) <= 0 THEN 0
                        ELSE Min(stop - Offset(k), Len(B(k)))
        stored == {q \in 1..stop : all[q].parses}
        names == {all[q].name : q \in stored}
        Last(nm) == SeqMax({q \in stored : all[q].name = nm})
    IN [satellites |-> [nm \in names |-> Entry(all[Last(nm)])],
        log |-> [k \in 1..Len(SatelliteSources) |->
                   [category |-> SatelliteSources[k],
                    requested |-> ~capped \/ Offset(k) < stop,
                    failed |-> answers[k].fails,
                    lines |-> answers[k].lines,
                    attempted |-> Attempted(k),
                    stores |-> SelectSeq(SubSeq(B(k), 1, Attempted(k)),
                                         LAMBDA b : b.parses)]]]

\* a loader that stops one satellite late
LoadSatellitesLate(answers) == LoadUpTo(answers, MaxSatellites + 1)

\* load_satellites: the limit is 100 (lines 182 and 187)
LoadSatellites(answers) == LoadUpTo(answers, MaxSatellites)

\* a deque without a maximum length
AppendUnbounded(trail, p, n) == Append(trail, p)

\* deque(maxlen=n).append(p) on the deque that holds trail
AppendBounded(trail, p, n) ==
    IF n = 0 THEN <<>>
    ELSE IF Len(trail) < n THEN Append(trail, p)
    ELSE Append(Tail(trail), p)

\* calculate_satellite_position at clock reading t, where satellite.at
\* answers: the X-Y projection of lines 203-206
Position(name, t) == <<name.id, t>>

\* no entries yet (line 31)
NoSatellites == [nm \in {} |-> <<>>]

\* a body of nblocks three-line blocks and extra lines of a further one,
\* named base + 1 on; block badAt has a second line that does not parse
TleBody(base, nblocks, extra, badAt) ==
    [i \in 1..(3 * nblocks + extra) |->
        LET j == ((i - 1) \div 3) + 1
        IN CASE (i - 1) % 3 = 0 -> Line("name", base + j)
             [] (i - 1) % 3 = 1 -> Line("l1", base + j)
             [] OTHER -> IF j = badAt THEN Line("junk", base + j)
                         ELSE Line("l2", base + j)]

\* the short bodies; split('\n') never yields an empty list
SmallBodies ==
    {TleBody(0, nblocks, extra, badAt) :
        nblocks \in 0..MaxBlocks, extra \in 0..2, badAt \in 0..1}
    \ {<<>>}

\* a body of source k long enough for two of them to pass the limit, with
\* names no other source has
BulkBody(k) == TleBody(k * MaxSatellites, (MaxSatellites \div 2) + MaxBlocks,
                       0, 0)

\* the answers load_satellites is tried on
LoadAnswers ==
    {[k \in 1..Len(SatelliteSources) |->
        CASE k = 1 -> a1 [] k = 2 -> a2 [] k = 3 -> a3 [] k = 4 -> a4
          [] OTHER -> a5] :
      a1 \in {Failed, Answer(BulkBody(1))} \cup {Answer(b) : b \in SmallBodies},
      a2 \in {Failed, Answer(BulkBody(2)), Answer(TleBody(0, 1, 0, 0))},
      a3 \in {Failed, Answer(BulkBody(3))},
      a4 \in {Failed, Answer(BulkBody(4))},
      a5 \in {Failed, Answer(BulkBody(5))}}

\* ------------------------------------------------------------------ state
\* before any colour query
NoColor == [asked |-> FALSE, z |-> <<>>, range |-> [lo |-> 0, hi |-> 0],
            norm |-> [vmin |-> 0, vmax |-> 0], point |-> <<>>,
            bar |-> <<>>, stable |-> TRUE]

VARIABLES
    galaxy_data,   \* self.galaxy_data
    rng,           \* the state of numpy's global generator
    provenance,    \* the assignment that set galaxy_data last
    ret,           \* what the last fetch_galaxy_data returned
    lim,           \* the limit of the last fetch_galaxy_data
    reqlog,        \* the requests the last fetch_galaxy_data issued, in order
    probed,        \* what the probe of the last fetch_galaxy_data met
    failure,       \* why the last fetch_galaxy_data fell back
    response,      \* what the main request of that call met
    csv_file,      \* the table the last fetch_galaxy_data wrote to disk
    disk,          \* what the file system did to that call's CSV save
    snap,          \* a synthetic table kept from an earlier generation
    since,         \* calls of fetch_galaxy_data since snap was kept
    op,            \* the derived-metrics or render operation applied last
    before,        \* the table that operation was applied to
    passes,        \* full derived-metrics passes applied so far
    raised,        \* the last derived-metrics or render operation raised
    summary,       \* the summary file save_visualizations wrote last
    color,         \* the last colour query: its redshifts and what the two
                   \* mappings made of them
    satellites,    \* self.satellites of the SatelliteVisualizer
    sources,       \* what load_satellites met and did, source by source
    trail_length,  \* the constructor's trail_length
    satellite_trails,  \* self.satellite_trails, the deques made so far
    fig,           \* self.fig is not None
    setups,        \* runs of setup_plot
    running,       \* an animation is running
    satellite_points,  \* the data of each satellite's point element
    trail_lines,   \* the data of each satellite's trail line element
    active,        \* the count the last tick displayed
    computed,      \* what calculate_satellite_position returned in that tick
    clock,         \* the time self.ts.now() reads
    successes,     \* each satellite's computed positions so far, in order
    started_at,    \* what the clock read when the animation was last started
    pc,            \* where the satellite program's main() is
    choice,        \* the choice main() read last
    event          \* how the mode of that choice, or the read itself, ended

vars == <<galaxy_data, rng, provenance, ret, lim, reqlog, probed, failure,
          response, csv_file, disk, snap, since, op, before, passes, raised,
          summary, color, satellites, sources, trail_length,
          satellite_trails, fig, setups, running, satellite_points,
          trail_lines, active, computed, clock, successes, started_at,
          pc, choice, event>>

\* the satellite program: the visualizer's fields and main()'s position
satVars == <<satellites, sources, trail_length, satellite_trails, fig,
             setups, running, satellite_points, trail_lines, active,
             computed, clock, successes, started_at, pc, choice, event>>

\* main() of the satellite program: its position and what it read last
mainVars == <<pc, choice, event>>

galaxyVars == <<galaxy_data, rng, provenance, ret, lim, reqlog, probed,
                failure, response, csv_file, disk, snap, since, op, before,
                passes, raised, summary, color>>

fetchVars == <<provenance, ret, lim, reqlog, probed, failure, response,
               csv_file, disk, snap, since>>

\* SatelliteVisualizer.__init__ up to line 48, before load_satellites
SatelliteIdle ==
    /\ satellites = NoSatellites
    /\ sources = <<>>
    /\ satellite_trails = NoSatellites
    /\ fig = FALSE
    /\ setups = 0
    /\ running = FALSE
    /\ satellite_points = NoSatellites
    /\ trail_lines = NoSatellites
    /\ active = 0
    /\ computed = NoSatellites
    /\ clock = 0
    /\ successes = NoSatellites
    /\ started_at = 0
    /\ pc = "none"
    /\ choice = ""
    /\ event = "none"

\* GalaxyArtVisualizer.__init__
GalaxyIdle ==
    /\ galaxy_data = None
    /\ provenance = "none"
    /\ ret = "none"
    /\ lim = 0
    /\ reqlog = <<>>
    /\ probed = NoProbe
    /\ failure = "none"
    /\ response = NoResponse
    /\ csv_file = None
    /\ disk = "none"
    /\ snap = None
    /\ since = 0
    /\ op = "none"
    /\ before = None
    /\ passes = 0
    /\ raised = FALSE
    /\ summary = NoSummary
    /\ color = NoColor

Init ==
    /\ GalaxyIdle
    /\ rng \in RngStates
    /\ SatelliteIdle
    /\ trail_length = 0

\* the environment's answers to one call, drawn only where the call
\* consults them: <<probe, response, file system>>
FetchInputs(limit) ==
    LET live == {<<resp, "ok">> : resp \in Responses(limit)}
                \cup {<<resp, fs>> :
                        resp \in {r \in Responses(limit) : r.table.n > 0},
                        fs \in FsOutcomes}
    IN IF NeedsProbe(limit)
       THEN {<<p, NoResponse, "ok">> :
                p \in {q \in ProbeOutcomes : ~TestSdssConnection(q)}}
            \cup {<<p, x[1], x[2]>> :
                p \in {q \in ProbeOutcomes : TestSdssConnection(q)},
                x \in live}
       ELSE {<<NoProbe, x[1], x[2]>> : x \in live}

\* fetch_galaxy_data tabulated over the generator's states: the calls that
\* can be made and what each one does
FetchCalls ==
    [s \in RngStates |->
        UNION {{[limit |-> limit, probe |-> i[1], resp |-> i[2], fs |-> i[3],
                 o |-> FetchGalaxyData(s, limit, i[1], i[2], i[3])] :
                    i \in FetchInputs(limit)} : limit \in Limits}]

\* one call of fetch_galaxy_data(limit)
Fetch ==
    \E c \in FetchCalls[rng] :
        /\ galaxy_data' = c.o.data
        /\ rng' = c.o.rng
        /\ provenance' = c.o.source
        /\ ret' = c.o.ret
        /\ lim' = c.limit
        /\ reqlog' = c.o.reqs
        /\ probed' = c.probe
        /\ failure' = c.o.failure
        /\ response' = c.resp
        /\ csv_file' = c.o.file
        /\ disk' = c.fs
        /\ since' = IF snap.none THEN 0 ELSE Min(since + 1, MaxSince)
        /\ UNCHANGED <<snap, op, before, passes, raised, summary, color,
                       satVars>>

\* an observer keeps the synthetic table a fetch has just left
KeepSnapshot ==
    /\ provenance = "synthetic"
    /\ snap = None
    /\ snap' = galaxy_data
    /\ UNCHANGED <<galaxy_data, rng, provenance, ret, lim, reqlog, probed,
                   failure, response, csv_file, disk, since, op, before,
                   passes, raised, summary, color, satVars>>

Next == Fetch \/ KeepSnapshot

Spec == Init /\ [][Next]_vars

\* --------------------------------- the derived-metrics pass on its own
\* the tables the pass is tried on.  Cells of the four kinds of row:
\* a zero, a positive and a negative half-light radius, a zero 90%-light
\* radius, and a shape fraction below, at and above the threshold
R50Values == <<0, 100, -1, 250>>
R90Values == <<300, 0, 300, 500>>
FracValues == <<20, FlagThreshold, 90, FlagThreshold>>

MetricColumns == {"petroR50_r", "petroR90_r", "deVAB_r", "fracDeV_r",
                  "petroMag_r", "redshift", "g", "r", "i",
                  "dered_g", "dered_r", "dered_i"}

MetricRow(j) == [c \in MetricColumns |->
    CASE c = "petroR50_r" -> R50Values[j]
      [] c = "petroR90_r" -> R90Values[j]
      [] c = "deVAB_r"    -> FracValues[j]
      [] c = "fracDeV_r"  -> FracValues[j]
      [] c = "petroMag_r" -> 1600 + j
      [] c = "redshift"   -> 10 + j
      [] c = "g"          -> 1800 + j
      [] c = "r"          -> 1720
      [] c = "i"          -> 1650
      [] c = "dered_g"    -> 1810 + j
      [] c = "dered_r"    -> 1700
      [] c = "dered_i"    -> 1640]

MetricRowSeq(j, k) ==
    [i \in 1..k |-> MetricRow(((j + i - 2) % Len(R50Values)) + 1)]

\* column sets: what decides the shape fraction and the redshift, which
\* magnitudes and which radii there are
ShapeSets == {{"deVAB_r", "petroMag_r"}, {"petroMag_r"},
              {"redshift", "fracDeV_r"}, {"deVAB_r"}}
MagSets == {{}, {"g", "r"}, {"g", "r", "i"}}
RadiusSets == {{}, {"petroR90_r"}, {"petroR50_r", "petroR90_r"}}

MetricSchemas ==
    {B \cup M \cup R : B \in ShapeSets, M \in MagSets, R \in RadiusSets}
    \cup {{"redshift", "fracDeV_r"} \cup D \cup R :
            D \in SUBSET {"dered_g", "dered_r", "dered_i"},
            R \in RadiusSets}

MetricTables ==
    {ReadCsv(S, MetricRowSeq(j, k)) :
        S \in MetricSchemas, j \in 1..Len(R50Values), k \in 1..MaxRows}

InitMetrics ==
    /\ galaxy_data \in MetricTables
    /\ rng \in RngStates
    /\ provenance = "none"
    /\ ret = "none"
    /\ lim = 0
    /\ reqlog = <<>>
    /\ probed = NoProbe
    /\ failure = "none"
    /\ response = NoResponse
    /\ csv_file = None
    /\ disk = "none"
    /\ snap = None
    /\ since = 0
    /\ op = "none"
    /\ before = galaxy_data
    /\ passes = 0
    /\ raised = FALSE
    /\ summary = NoSummary
    /\ color = NoColor
    /\ SatelliteIdle
    /\ trail_length = 0

\* lines 101-102: _add_basic_morphology(), then
\* _calculate_morphology_params() unless the former raised
DerivedMetrics ==
    /\ passes < MaxPasses
    /\ LET a == AddBasicMorphology(galaxy_data, rng)
       IN /\ galaxy_data' = IF a.raised THEN a.table
                            ELSE CalculateMorphologyParams(a.table)
          /\ rng' = a.rng
          /\ raised' = a.raised
    /\ op' = "derived"
    /\ before' = galaxy_data
    /\ passes' = passes + 1
    /\ UNCHANGED <<fetchVars, summary, color, satVars>>

\* _calculate_morphology_params() alone, as line 235 calls it
CalculateOnly ==
    /\ galaxy_data' = CalculateMorphologyParams(galaxy_data)
    /\ op' = "calc"
    /\ before' = galaxy_data
    /\ raised' = FALSE
    /\ UNCHANGED <<rng, passes>>
    /\ UNCHANGED <<fetchVars, summary, color, satVars>>

NextMetrics == DerivedMetrics \/ CalculateOnly

SpecMetrics == InitMetrics /\ [][NextMetrics]_vars

\* ------------------------------------------------ a run of the program
\* line 761: main() fetches once, with limit=50
MainFetch ==
    /\ ret = "none"
    /\ Fetch
    /\ lim' = MainLimit

\* one call of create_morphology_art()
RenderMorphologyArt ==
    /\ passes < MaxPasses
    /\ \E plot \in PlotOutcomes :
         LET r == CreateMorphologyArt(galaxy_data, rng, plot)
         IN /\ galaxy_data' = r.table
            /\ rng' = r.rng
            /\ raised' = r.raised
    /\ op' = "art"
    /\ before' = galaxy_data
    /\ passes' = passes + 1
    /\ UNCHANGED <<fetchVars, summary, color, satVars>>

\* one call of create_interactive_3d_view()
RenderInteractive3dView ==
    /\ passes < MaxPasses
    /\ LET r == CreateInteractive3dView(galaxy_data, rng)
       IN /\ galaxy_data' = r.table
          /\ rng' = r.rng
          /\ raised' = r.raised
    /\ op' = "view"
    /\ before' = galaxy_data
    /\ passes' = passes + 1
    /\ UNCHANGED <<fetchVars, summary, color, satVars>>

\* one call of save_visualizations(), as line 765 makes it; a call that
\* raises leaves the summary file of an earlier call in place
RunSaveVisualizations ==
    /\ passes < MaxPasses
    /\ \E plot \in PlotOutcomes, fs \in FsOutcomes :
         LET r == SaveVisualizations(galaxy_data, rng, plot, fs)
         IN /\ galaxy_data' = r.table
            /\ rng' = r.rng
            /\ raised' = r.raised
            /\ summary' = IF r.raised THEN summary ELSE r.summary
    /\ op' = "save"
    /\ before' = galaxy_data
    /\ passes' = passes + 1
    /\ UNCHANGED <<fetchVars, color, satVars>>

NextRender ==
    \/ MainFetch
    \/ RenderMorphologyArt
    \/ RenderInteractive3dView
    \/ RunSaveVisualizations

SpecRender == Init /\ [][NextRender]_vars

\* ------------------------------------------------- colouring by redshift
\* the redshifts asked about: the table's own, and ones outside its range
ZInputs(t) ==
    (IF ~t.none /\ HasCol(t, "redshift") THEN Cells(t, "redshift") ELSE {})
    \cup {RedshiftRange(t).lo - 5, RedshiftRange(t).lo,
          RedshiftRange(t).hi, RedshiftRange(t).hi + 5}

\* the charts colour an array of redshifts once through redshift_to_color
\* (lines 355, 465, 598) and once through the colormap and norm of
\* get_redshift_colormap_info (lines 407, 432, 648); stable records whether
\* a repeated query on the same table got the same answer
RedshiftColors ==
    /\ \E z1 \in ZInputs(galaxy_data), z2 \in ZInputs(galaxy_data) :
         LET z == <<z1, z2>>
             point == RedshiftToColor(galaxy_data, z)
         IN color' = [asked |-> TRUE, z |-> z,
                      range |-> RedshiftRange(galaxy_data),
                      norm |-> GetRedshiftColormapInfo(galaxy_data),
                      point |-> point,
                      bar |-> ColormapPositions(galaxy_data, z),
                      stable |-> (color.asked /\ color.z = z
                                   /\ color.range = RedshiftRange(galaxy_data))
                                  => point = color.point]
    /\ UNCHANGED <<galaxy_data, rng, fetchVars, op, before, passes, raised,
                   summary, satVars>>

NextColor == MainFetch \/ RedshiftColors

SpecColor == Init /\ [][NextColor]_vars

\* ============================ SatelliteConstellationTrails: construction
TrailLengths == 0..MaxTrail

\* __init__ has reached line 51
InitLoad ==
    /\ GalaxyIdle
    /\ rng = SeedState
    /\ SatelliteIdle
    /\ trail_length = MaxTrail

\* line 51: load_satellites(), once
Load ==
    /\ sources = <<>>
    /\ \E answers \in LoadAnswers :
         LET r == LoadSatellites(answers)
         IN /\ satellites' = r.satellites
            /\ sources' = r.log
    /\ UNCHANGED <<trail_length, satellite_trails, fig, setups, running,
                   satellite_points, trail_lines, active, computed, clock,
                   successes, started_at, mainVars>>
    /\ UNCHANGED galaxyVars

NextLoad == Load

SpecLoad == InitLoad /\ [][NextLoad]_vars

\* ================================ SatelliteConstellationTrails: animation
\* the answers the animated constellations are loaded from: one source
\* with a few well-formed blocks
AnimAnswers ==
    {[k \in 1..Len(SatelliteSources) |->
        IF k = 1 THEN Answer(TleBody(0, nblocks, 0, 0)) ELSE Failed] :
      nblocks \in 1..MaxBlocks}

\* a constructed visualizer
InitAnim ==
    /\ GalaxyIdle
    /\ rng = SeedState
    /\ trail_length \in TrailLengths
    /\ \E answers \in AnimAnswers :
         /\ satellites = LoadSatellites(answers).satellites
         /\ sources = LoadSatellites(answers).log
    /\ satellite_trails = NoSatellites
    /\ fig = FALSE
    /\ setups = 0
    /\ running = FALSE
    /\ satellite_points = NoSatellites
    /\ trail_lines = NoSatellites
    /\ active = 0
    /\ computed = NoSatellites
    /\ clock = 0
    /\ successes = [nm \in DOMAIN satellites |-> <<>>]
    /\ started_at = 0
    /\ pc = "none"
    /\ choice = ""
    /\ event = "none"

\* a plot that is set up again at every start
NeedsSetupAlways(f) == TRUE

\* line 314: setup_plot is called while self.fig is None; f tells whether
\* self.fig is set
NeedsSetup(f) == ~f

\* a loop that an exception of a mode ends
AfterChoiceFatal(c, ev) ==
    IF ev \in {"keyboard_interrupt", "eof", "exception"} THEN "done"
    ELSE IF c = "4" THEN "done"
    ELSE "prompt"

\* one round of the menu loop (lines 394-427) for the stripped input c,
\* where ev tells how the read or the chosen mode ended: where main() is
\* afterwards, at the prompt again or past the loop
AfterChoice(c, ev) ==
    IF ev \in {"keyboard_interrupt", "eof"} THEN "done"
    ELSE IF ev = "exception" THEN "prompt"
    ELSE IF c = "4" THEN "done"
    ELSE "prompt"

\* start_real_time_visualization up to plt.show(): setup_plot on the first
\* start (lines 314-315) makes an empty point and an empty trail line for
\* every satellite (lines 87-88 and 106-121).  Called by a program of its
\* own, or by main() for the choice '1' (line 405)
StartRealTimeVisualization ==
    /\ ~running
    /\ pc \in {"none", "prompt"}
    /\ running' = TRUE
    /\ fig' = TRUE
    /\ IF NeedsSetup(fig)
       THEN /\ setups' = setups + 1
            /\ satellite_points' = [nm \in DOMAIN satellites |-> <<>>]
            /\ trail_lines' = [nm \in DOMAIN satellites |-> <<>>]
       ELSE UNCHANGED <<setups, satellite_points, trail_lines>>
    /\ started_at' = clock
    /\ IF pc = "prompt"
       THEN pc' = "show" /\ choice' = "1" /\ event' = "none"
       ELSE UNCHANGED mainVars
    /\ UNCHANGED <<satellites, sources, trail_length, satellite_trails,
                   active, computed, clock, successes>>
    /\ UNCHANGED galaxyVars

\* a trail line that is never redrawn
TrailLineDataStale(trail, line) == line

\* lines 233-235: the trail line is given the whole trail once the trail
\* has more than one point, and keeps its data until then
TrailLineData(trail, line) == IF Len(trail) > 1 THEN trail ELSE line

\* a tick that takes a failed computation for a position at the origin
UpdateOneLenient(nm, ok, t, length, st) ==
    LET p == IF ok THEN Position(nm, t) ELSE <<0, 0>>
        trail == AppendBounded(st.trail, p, length)
    IN [point |-> p, trail |-> trail,
        line |-> TrailLineData(trail, st.line)]

\* lines 217-235 for one satellite whose point, trail and trail line are
\* st: ok tells whether calculate_satellite_position returned a position
UpdateOne(nm, ok, t, length, st) ==
    IF ~ok THEN st
    ELSE LET p == Position(nm, t)
             trail == AppendBounded(st.trail, p, length)
         IN [point |-> p, trail |-> trail,
             line |-> TrailLineData(trail, st.line)]

\* one call of update_animation by the running animation (lines 211-246);
\* a deque is made when a satellite's trail is first touched (line 32)
UpdateAnimation ==
    /\ running
    /\ clock < MaxTicks
    /\ clock' = clock + 1
    /\ \E ok \in [DOMAIN satellites -> BOOLEAN] :
         LET St(nm) == [point |-> satellite_points[nm],
                        trail |-> IF nm \in DOMAIN satellite_trails
                                  THEN satellite_trails[nm] ELSE <<>>,
                        line |-> trail_lines[nm]]
             New(nm) == UpdateOne(nm, ok[nm], clock', trail_length, St(nm))
         IN /\ satellite_points' =
                  [nm \in DOMAIN satellites |-> New(nm).point]
            /\ satellite_trails' =
                  [nm \in DOMAIN satellite_trails
                          \cup {x \in DOMAIN satellites : ok[x]} |->
                      New(nm).trail]
            /\ trail_lines' = [nm \in DOMAIN satellites |-> New(nm).line]
            /\ active' = Cardinality({nm \in DOMAIN satellites : ok[nm]})
            /\ computed' = [nm \in DOMAIN satellites |->
                              IF ok[nm] THEN Position(nm, clock')
                              ELSE <<>>]
            /\ successes' = [nm \in DOMAIN satellites |->
                               IF ok[nm]
                               THEN Append(successes[nm],
                                           Position(nm, clock'))
                               ELSE successes[nm]]
    /\ UNCHANGED <<satellites, sources, trail_length, fig, setups, running,
                   started_at, mainVars>>
    /\ UNCHANGED galaxyVars

\* the plot window is closed: plt.show() returns (line 327), and with it
\* the call; main() then goes round its loop
CloseWindow ==
    /\ running
    /\ running' = FALSE
    /\ IF pc = "show"
       THEN /\ event' = "returned"
            /\ pc' = AfterChoice(choice, "returned")
            /\ UNCHANGED choice
       ELSE UNCHANGED mainVars
    /\ UNCHANGED <<satellites, sources, trail_length, satellite_trails, fig,
                   setups, satellite_points, trail_lines, active, computed,
                   clock, successes, started_at>>
    /\ UNCHANGED galaxyVars

NextAnim == StartRealTimeVisualization \/ UpdateAnimation \/ CloseWindow

SpecAnim == InitAnim /\ [][NextAnim]_vars

\* ============================== SatelliteConstellationTrails: the menu
\* line 388: main() builds its visualizer with trail_length=30
MainTrailLength == 30

\* what the sources answer to main()'s visualizer: nothing at all, or one
\* source with a few blocks, which may be none
MenuAnswers ==
    {[k \in 1..Len(SatelliteSources) |-> Failed]}
    \cup {[k \in 1..Len(SatelliteSources) |->
             IF k = 1 THEN Answer(TleBody(0, nblocks, 1, 0)) ELSE Failed] :
           nblocks \in 0..MaxBlocks}

\* main() after line 388
InitMenu ==
    /\ GalaxyIdle
    /\ rng = SeedState
    /\ trail_length = MainTrailLength
    /\ \E answers \in MenuAnswers :
         /\ satellites = LoadSatellites(answers).satellites
         /\ sources = LoadSatellites(answers).log
    /\ satellite_trails = NoSatellites
    /\ fig = FALSE
    /\ setups = 0
    /\ running = FALSE
    /\ satellite_points = NoSatellites
    /\ trail_lines = NoSatellites
    /\ active = 0
    /\ computed = NoSatellites
    /\ clock = 0
    /\ successes = [nm \in DOMAIN satellites |-> <<>>]
    /\ started_at = 0
    /\ pc = "main"
    /\ choice = ""
    /\ event = "none"

\* what main() leaves alone in a step that only reads or draws
visualizerVars == <<satellites, sources, trail_length, satellite_trails, fig,
                    setups, running, satellite_points, trail_lines, active,
                    computed, clock, successes, started_at>>

\* lines 390-392: without satellites main() returns before its loop
CheckSatellites ==
    /\ pc = "main"
    /\ pc' = IF DOMAIN satellites = {} THEN "returned" ELSE "prompt"
    /\ UNCHANGED <<choice, event, visualizerVars>>
    /\ UNCHANGED galaxyVars

\* how a call made for a choice can end short of its end
Raised == {"exception", "keyboard_interrupt"}

\* the choice '1' whose start_real_time_visualization raises before a
\* window is shown: plt.subplots of line 56, before self.fig is assigned,
\* or a Ctrl-C
StartRaises ==
    /\ pc = "prompt"
    /\ \E ev \in Raised :
         /\ choice' = "1"
         /\ event' = ev
         /\ pc' = AfterChoice("1", ev)
    /\ UNCHANGED visualizerVars
    /\ UNCHANGED galaxyVars

\* the animation of the choice '1' ends by an exception out of plt.show()
\* or by a Ctrl-C
ShowRaises ==
    /\ pc = "show"
    /\ running
    /\ running' = FALSE
    /\ \E ev \in Raised :
         /\ event' = ev
         /\ pc' = AfterChoice(choice, ev)
    /\ UNCHANGED <<choice, satellites, sources, trail_length,
                   satellite_trails, fig, setups, satellite_points,
                   trail_lines, active, computed, clock, successes,
                   started_at>>
    /\ UNCHANGED galaxyVars

\* the choice '2' (lines 406-408): create_orbital_art draws on a figure of
\* its own and writes orbital_art.png; it assigns no field
ChooseOrbitalArt ==
    /\ pc = "prompt"
    /\ \E ev \in {"returned"} \cup Raised :
         /\ choice' = "2"
         /\ event' = ev
         /\ pc' = AfterChoice("2", ev)
    /\ UNCHANGED visualizerVars
    /\ UNCHANGED galaxyVars

\* the choice '3' (lines 409-411): create_constellation_map, likewise
ChooseConstellationMap ==
    /\ pc = "prompt"
    /\ \E ev \in {"returned"} \cup Raised :
         /\ choice' = "3"
         /\ event' = ev
         /\ pc' = AfterChoice("3", ev)
    /\ UNCHANGED visualizerVars
    /\ UNCHANGED galaxyVars

\* the choice '4' (lines 412-414)
ChooseExit ==
    /\ pc = "prompt"
    /\ choice' = "4"
    /\ event' = "returned"
    /\ pc' = AfterChoice("4", "returned")
    /\ UNCHANGED visualizerVars
    /\ UNCHANGED galaxyVars

\* stripped inputs that are none of the four choices
InvalidChoices == {"", "5", "exit"}

\* lines 415-416: any other input
InvalidChoice ==
    /\ pc = "prompt"
    /\ \E c \in InvalidChoices :
         /\ choice' = c
         /\ pc' = AfterChoice(c, "returned")
    /\ event' = "returned"
    /\ UNCHANGED visualizerVars
    /\ UNCHANGED galaxyVars

\* input() itself raises: Ctrl-C at the prompt or the end of the input;
\* choice keeps its value
InputRaises ==
    /\ pc = "prompt"
    /\ \E ev \in {"keyboard_interrupt", "eof"} :
         /\ event' = ev
         /\ pc' = AfterChoice(choice, ev)
    /\ UNCHANGED <<choice, visualizerVars>>
    /\ UNCHANGED galaxyVars

NextMenu ==
    \/ CheckSatellites
    \/ StartRealTimeVisualization
    \/ UpdateAnimation
    \/ CloseWindow
    \/ StartRaises
    \/ ShowRaises
    \/ ChooseOrbitalArt
    \/ ChooseConstellationMap
    \/ ChooseExit
    \/ InvalidChoice
    \/ InputRaises

SpecMenu == InitMenu /\ [][NextMenu]_vars

\* ================================================================ claims
\* the columns _generate_synthetic_data defines
SyntheticColumns == {"ra", "dec", "redshift", "petroR50_r", "petroR90_r",
                     "fracDeV_r", "modelMag_r", "expAB_r",
                     "dered_g", "dered_r", "dered_i", "spiral", "elliptical",
                     "concentration", "g_r_color", "r_i_color"}

\* t is a synthetic table of n rows
IsSyntheticTable(t, n) ==
    /\ ~t.none
    /\ t.n = n
    /\ Columns(t) = SyntheticColumns
    /\ \A c \in SyntheticColumns : Len(t.col[c]) = n

\* the main request failed: timeout, non-200 status, HTML body, parse error,
\* or a CSV without data rows
RequestFailed ==
    \/ response.kind = "timeout"
    \/ /\ response.kind = "http"
       /\ \/ response.status # 200
          \/ response.html
          \/ response.csv \in {"parse_error", "no_data"}
          \/ response.csv = "ok" /\ response.table.n = 0

\* C1: after a failed live request fetch_galaxy_data has returned False (it
\* did not raise) and galaxy_data is a synthetic table of exactly limit rows
C1_FailureFallsBack ==
    RequestFailed =>
        /\ ret = "False"
        /\ provenance = "synthetic"
        /\ IsSyntheticTable(galaxy_data, lim)

\* a header-only CSV was parsed into a table and then replaced
C1_Witness ==
    /\ response.kind = "http" /\ response.status = 200 /\ ~response.html
    /\ response.csv = "ok" /\ ~response.table.none /\ response.table.n = 0
    /\ ret = "False"
    /\ IsSyntheticTable(galaxy_data, lim)
    /\ lim > 1

\* t is the table read from the response with the derived columns added
IsLiveTable(t) ==
    /\ response.kind = "http" /\ response.status = 200 /\ response.csv = "ok"
    /\ ~t.none
    /\ t.n = response.table.n
    /\ \A c \in Columns(response.table) :
          c \in Columns(t) /\ t.col[c] = response.table.col[c]
    /\ {"fracDeV_r", "elliptical", "spiral", "redshift", "concentration"}
          \subseteq Columns(t)
    /\ "modelMag_r" \notin Columns(t)

\* C2: True is returned exactly when galaxy_data is the live table with its
\* derived columns, False exactly when it is the synthetic table
C2_BooleanIsProvenance ==
    /\ ret \in {"none", "True", "False"}
    /\ (ret = "none") <=> galaxy_data.none
    /\ (ret = "True") <=> (provenance = "live" /\ IsLiveTable(galaxy_data))
    /\ (ret = "False") <=>
          (provenance = "synthetic" /\ IsSyntheticTable(galaxy_data, lim))

\* a live fetch followed an earlier fallback
C2_Witness ==
    /\ ret = "True"
    /\ IsLiveTable(galaxy_data)
    /\ galaxy_data.n = 2
    /\ ~snap.none

\* the probe did not succeed
ProbeFailed == probed.raises \/ probed.status # 200 \/ probed.len <= 50

\* C3: above 25 rows the probe is the first request and a failed probe is
\* the only one, with synthetic data and False; up to 25 rows the main
\* request is the only one
C3_ProbePolicy ==
    ret # "none" =>
        /\ lim > ProbeThreshold =>
              /\ Len(reqlog) >= 1
              /\ reqlog[1] = "probe"
              /\ \A i \in 2..Len(reqlog) : reqlog[i] = "main"
              /\ ProbeFailed =>
                    /\ reqlog = <<"probe">>
                    /\ ret = "False"
                    /\ IsSyntheticTable(galaxy_data, lim)
              /\ ~ProbeFailed => reqlog = <<"probe", "main">>
        /\ lim <= ProbeThreshold => reqlog = <<"main">>

\* a large request whose probe got a non-200 answer
C3_Witness ==
    /\ lim = ProbeThreshold + 1
    /\ probed.status = 500
    /\ reqlog = <<"probe">>
    /\ ret = "False"

\* a cell that holds nothing: the quotient 0/0
IsMissing(q) == q.den = 0 /\ q.num = 0

\* C4: the synthetic table has exactly the rows asked for and a value in
\* every cell of every column the generator defines
C4_SyntheticComplete ==
    provenance = "synthetic" =>
        /\ lim >= 1
        /\ galaxy_data.n = lim
        /\ \A c \in SyntheticColumns :
              /\ c \in Columns(galaxy_data)
              /\ DOMAIN galaxy_data.col[c] = 1..lim
        /\ \A i \in 1..lim : ~IsMissing(galaxy_data.col["concentration"][i])

\* a synthetic table of one row more than the probe threshold
C4_Witness ==
    /\ provenance = "synthetic"
    /\ galaxy_data.n = ProbeThreshold + 1
    /\ Len(galaxy_data.col["r_i_color"]) = ProbeThreshold + 1

\* C5: a synthetic table equals the synthetic table of the same size kept
\* from any earlier generation, whatever ran in between
C5_Deterministic ==
    (provenance = "synthetic" /\ ~snap.none /\ snap.n = galaxy_data.n)
        => galaxy_data = snap

\* the table was generated again after another call had come in between
C5_Witness ==
    /\ provenance = "synthetic"
    /\ ~snap.none
    /\ snap = galaxy_data
    /\ since = MaxSince

\* _calculate_morphology_params has run on the table kept in before
Calculated == op = "calc" \/ (op = "derived" /\ ~raised)

HasRadii(t) == HasCol(t, "petroR50_r") /\ HasCol(t, "petroR90_r")

\* C6: a second derived-metrics pass leaves the table the first pass made
C6_Idempotent ==
    (op = "derived" /\ passes >= 2 /\ ~raised) => galaxy_data = before

\* the quotient q is a finite number that is not negative
FiniteNonNegative(q) == q.den # 0 /\ q.num * q.den >= 0

\* C7: rows with non-negative radii get a finite, non-negative concentration
C7_ConcentrationFinite ==
    (Calculated /\ HasRadii(before)) =>
        \A i \in 1..before.n :
            (before.col["petroR50_r"][i] >= 0
                /\ before.col["petroR90_r"][i] >= 0)
            => FiniteNonNegative(galaxy_data.col["concentration"][i])

\* a row with a half-light radius of zero got its concentration
C7_Witness ==
    /\ op = "calc"
    /\ HasRadii(before)
    /\ \E i \in 1..before.n :
          /\ before.col["petroR50_r"][i] = 0
          /\ before.col["petroR90_r"][i] > 0
          /\ galaxy_data.col["concentration"][i].den = Epsilon

\* the quotient q equals a / b
EqualsRatio(q, a, b) == q.num * b = a * q.den

\* C8 as stated: above the guard value the concentration is R90 / R50
C8_PlainRatioAboveGuard ==
    (Calculated /\ HasRadii(before)) =>
        \A i \in 1..before.n :
            before.col["petroR50_r"][i] > Epsilon
            => EqualsRatio(galaxy_data.col["concentration"][i],
                           before.col["petroR90_r"][i],
                           before.col["petroR50_r"][i])

\* C8 amended: the concentration is R90 / (R50 + 0.01) in every row, which
\* for positive radii is strictly less than R90 / R50
C8_GuardedRatio ==
    (Calculated /\ HasRadii(before)) =>
        \A i \in 1..before.n :
            LET q == galaxy_data.col["concentration"][i]
                r50 == before.col["petroR50_r"][i]
                r90 == before.col["petroR90_r"][i]
            IN /\ EqualsRatio(q, r90, r50 + Epsilon)
               /\ (q.den = 0) <=> (r50 + Epsilon = 0)
               /\ (r50 > 0 /\ r90 > 0) => q.num * r50 < r90 * q.den

\* a row well above the guard value got its concentration
C8_Witness ==
    /\ Calculated
    /\ HasRadii(before)
    /\ \E i \in 1..before.n :
          /\ before.col["petroR50_r"][i] > Epsilon
          /\ before.col["petroR90_r"][i] > 0
          /\ galaxy_data.col["concentration"][i].den
                = before.col["petroR50_r"][i] + Epsilon

\* C9: in the table a fetch leaves, elliptical is 1 exactly from 0.5 up,
\* spiral is 1 exactly below 0.5, and each row has exactly one of them
C9_FlagsThresholded ==
    ~galaxy_data.none =>
        \A i \in 1..galaxy_data.n :
            LET f == galaxy_data.col["fracDeV_r"][i]
                e == galaxy_data.col["elliptical"][i]
                sp == galaxy_data.col["spiral"][i]
            IN /\ e \in {0, 1} /\ sp \in {0, 1}
               /\ (e = 1) <=> (f >= FlagThreshold)
               /\ (sp = 1) <=> (f < FlagThreshold)
               /\ e + sp = 1

\* a live row whose shape fraction is exactly 0.5
C9_Witness ==
    /\ provenance = "live"
    /\ \E i \in 1..galaxy_data.n :
          /\ galaxy_data.col["fracDeV_r"][i] = FlagThreshold
          /\ galaxy_data.col["elliptical"][i] = 1

DerivedColumns == {"concentration", "g_r_color", "r_i_color"}

\* column c of the table is the difference a - b of the columns of before
\* exactly when both are there, and is as it was otherwise
ColorAdded(c, a, b) ==
    IF HasCol(before, a) /\ HasCol(before, b)
    THEN /\ HasCol(galaxy_data, c)
         /\ galaxy_data.col[c] =
               [i \in 1..before.n |-> before.col[a][i] - before.col[b][i]]
    ELSE /\ HasCol(galaxy_data, c) <=> HasCol(before, c)
         /\ HasCol(before, c) => galaxy_data.col[c] = before.col[c]

\* C10: _calculate_morphology_params adds each colour index exactly when
\* both of its operands are present, raises nothing and changes no raw column
C10_ColorIndices ==
    op = "calc" =>
        /\ ~raised
        /\ ColorAdded("g_r_color", "dered_g", "dered_r")
        /\ ColorAdded("r_i_color", "dered_r", "dered_i")
        /\ Columns(galaxy_data) \subseteq Columns(before) \cup DerivedColumns
        /\ \A c \in Columns(before) \ DerivedColumns :
              HasCol(galaxy_data, c) /\ galaxy_data.col[c] = before.col[c]

\* g - r was added where r - i could not be
C10_Witness ==
    /\ op = "calc"
    /\ HasCol(before, "dered_g") /\ HasCol(before, "dered_r")
    /\ ~HasCol(before, "dered_i")
    /\ ~HasCol(before, "g_r_color")
    /\ HasCol(galaxy_data, "g_r_color")
    /\ ~HasCol(galaxy_data, "r_i_color")
    /\ galaxy_data.col["g_r_color"][1] # 0


\* C11: when main's fetch_galaxy_data(limit=50) finds the live source
\* unreachable (the probe fails, or the request times out or raises), it
\* returns False and leaves the 50-row synthetic table with its
\* concentration column, and a save_visualizations that completes after it
\* writes a summary whose total is 50
SourceUnreachable ==
    /\ lim = MainLimit
    /\ ProbeFailed \/ response.kind \in {"timeout", "error"}

C11_UnreachableEndToEnd ==
    SourceUnreachable =>
        /\ ret = "False"
        /\ IsSyntheticTable(galaxy_data, MainLimit)
        /\ galaxy_data.n = MainLimit
        /\ HasCol(galaxy_data, "concentration")
        /\ (op = "save" /\ ~raised) =>
                summary.written /\ summary.total = MainLimit

C11_Witness ==
    /\ SourceUnreachable
    /\ probed.raises
    /\ reqlog = <<"probe">>
    /\ op = "save"
    /\ ~raised
    /\ summary.written
    /\ summary.total = MainLimit
    /\ summary.columns = Columns(galaxy_data)

\* C14: when the CSV save of a live fetch that parsed and derived its
\* table fails in the file system (the directory cannot be created or the
\* file cannot be written), fetch_galaxy_data still returns True and
\* galaxy_data stays the live table with its derived columns
LiveFetchParsed ==
    /\ response.kind = "http"
    /\ response.status = 200
    /\ ~response.html
    /\ response.csv = "ok"
    /\ response.table.n > 0
    /\ HasCol(response.table, "redshift")
          \/ HasCol(response.table, "petroMag_r")

C14_SaveFailureNonFatal ==
    (LiveFetchParsed /\ disk \in {"mkdir_fail", "write_fail"}) =>
        /\ ret = "True"
        /\ provenance = "live"
        /\ IsLiveTable(galaxy_data)

\* C15: a CSV file is written only by a call that returns True, and it holds
\* the table as the derived-metrics pass left it; a call that falls back
\* writes none
C15_CsvOnlyOnSuccess ==
    /\ ~csv_file.none =>
          /\ ret = "True"
          /\ csv_file = galaxy_data
          /\ {"fracDeV_r", "elliptical", "spiral", "redshift",
              "concentration"} \subseteq Columns(csv_file)
    /\ ret = "False" => csv_file.none

C15_Witness ==
    /\ ret = "True"
    /\ disk = "ok"
    /\ ~csv_file.none
    /\ csv_file.n = MaxRows
    /\ HasCol(csv_file, "concentration")
    /\ HasCol(csv_file, "g_r_color")

\* C16: a render pass (create_morphology_art, create_interactive_3d_view,
\* save_visualizations) called with a table loaded leaves galaxy_data as it
\* found it, whatever the number and order of the passes
RenderOps == {"art", "view", "save"}

C16_RendersDoNotMutate ==
    (op \in RenderOps /\ ~before.none) => galaxy_data = before

C16_Witness ==
    /\ op = "save"
    /\ ~raised
    /\ passes = MaxPasses
    /\ provenance = "live"
    /\ ~before.none
    /\ before.n = MaxRows
    /\ summary.written
    /\ galaxy_data = before

\* C17: redshift_to_color and get_redshift_colormap_info normalise with the
\* same range (the redshift column's minimum and maximum, or 0.0 to 0.3) and
\* the same 0.3-1.0 part of plasma, so a redshift gets the same position in
\* the colormap from both
SamePosition(p, q) == p.den # 0 /\ q.den # 0 /\ p.num * q.den = q.num * p.den

C17_SameMapping ==
    color.asked =>
        /\ color.norm.vmin = color.range.lo
        /\ color.norm.vmax = color.range.hi
        /\ \A i \in 1..Len(color.z) :
              SamePosition(color.point[i], color.bar[i])

\* C18: the position redshift_to_color computes does not decrease as the
\* redshift grows, and asking again on the same table gives the same answer
NotAbove(p, q) == p.den # 0 /\ q.den # 0 /\ p.num * q.den <= q.num * p.den

C18_Monotone ==
    color.asked =>
        /\ \A i, j \in 1..Len(color.z) :
              color.z[i] <= color.z[j] =>
                  NotAbove(color.point[i], color.point[j])
        /\ color.stable

\* C20: of a status-200 body, one that starts with '<' or has 'html' in its
\* first 100 characters is never parsed and the call falls back; otherwise
\* the body is parsed as CSV, without its first line when that line starts
\* with '#' and whole when not, so a well-formed table becomes galaxy_data
C20_HeaderStripAndSniff ==
    /\ (response.kind = "http" /\ response.status = 200 /\ response.html) =>
          /\ ret = "False"
          /\ provenance = "synthetic"
          /\ IsSyntheticTable(galaxy_data, lim)
          /\ csv_file.none
    /\ (LiveFetchParsed /\ disk # "mkdir_fail") =>
          /\ ret = "True"
          /\ IsLiveTable(galaxy_data)

C20_Witness ==
    /\ LiveFetchParsed
    /\ response.comment
    /\ response.table.n = MaxRows
    /\ ret = "True"
    /\ IsLiveTable(galaxy_data)
    /\ since > 0

\* C12: in a tick, a satellite whose position computation gave no result
\* keeps its point, its trail history and its trail line as they were and
\* is not counted active, while every other satellite is moved to its new
\* position
Tick == clock' = clock + 1

TrailOf(trails, nm) == IF nm \in DOMAIN trails THEN trails[nm] ELSE <<>>

C12_FailedSatelliteUntouched ==
    [][Tick =>
        /\ \A nm \in DOMAIN satellites :
              IF computed'[nm] = <<>>
              THEN /\ satellite_points'[nm] = satellite_points[nm]
                   /\ TrailOf(satellite_trails', nm)
                        = TrailOf(satellite_trails, nm)
                   /\ trail_lines'[nm] = trail_lines[nm]
              ELSE satellite_points'[nm] = computed'[nm]
        /\ active' = Cardinality({nm \in DOMAIN satellites :
                                   computed'[nm] # <<>>})]_vars

\* a satellite with a point and a trail missed a tick that moved another
C12_Witness ==
    \E a, b \in DOMAIN computed :
        /\ computed[a] = <<>>
        /\ satellite_points[a] # <<>>
        /\ Len(TrailOf(satellite_trails, a)) > 1
        /\ trail_lines[a] = satellite_trails[a]
        /\ computed[b] # <<>>
        /\ satellite_points[b] = computed[b]
        /\ active = 1

\* C13: a satellite's trail history never holds more than trail_length
\* points and is the last min(k, trail_length) of its k computed positions,
\* oldest first
C13_TrailIsRecentWindow ==
    \A nm \in DOMAIN satellites :
        LET trail == TrailOf(satellite_trails, nm)
            k == Len(successes[nm])
            m == Min(k, trail_length)
        IN /\ Len(trail) <= trail_length
           /\ trail = SubSeq(successes[nm], k - m + 1, k)

\* a full trail has lost its oldest point
C13_Witness ==
    \E nm \in DOMAIN satellite_trails :
        /\ trail_length = MaxTrail
        /\ Len(successes[nm]) > trail_length
        /\ Len(satellite_trails[nm]) = trail_length
        /\ satellite_trails[nm][1] # successes[nm][1]
        /\ satellite_trails[nm][trail_length]
              = successes[nm][Len(successes[nm])]

\* C19 as stated: every answered source with n lines has floor(n/3) blocks
\* handed to EarthSatellite, and each of them that parses was stored under
\* its name with the source's category and colour
Answered(k) == sources[k].requested /\ ~sources[k].failed

\* the blocks among the first nb of source k that parse
ParsedBlocks(k, nb) ==
    {j \in 1..nb : ParsesTle(sources[k].lines[3 * j - 1],
                              sources[k].lines[3 * j])}

\* the entries stored from source k are those of the blocks in J, in order
StoredAre(k, J) ==
    /\ Len(sources[k].stores) = Cardinality(J)
    /\ \A j \in J :
          LET e == sources[k].stores[Cardinality({i \in J : i <= j})]
          IN /\ e.name = sources[k].lines[3 * j - 2]
             /\ e.name \in DOMAIN satellites
             /\ Entry(e).category = SatelliteSources[k]
             /\ Entry(e).color = CategoryColor(SatelliteSources[k])
             /\ Entry(e).satellite = <<sources[k].lines[3 * j - 1],
                                       sources[k].lines[3 * j]>>

C19_BlocksOfThree ==
    \A k \in DOMAIN sources :
        Answered(k) =>
            /\ sources[k].attempted = Len(sources[k].lines) \div 3
            /\ StoredAre(k, ParsedBlocks(k, Len(sources[k].lines) \div 3))

\* C19 amended: floor(n/3) blocks unless the entry that brought the
\* dictionary to 100 names came earlier in the source; the blocks behind
\* that one are not attempted
LimitReached == Cardinality(DOMAIN satellites) >= MaxSatellites

C19_BlocksOfThreeUpToLimit ==
    \A k \in DOMAIN sources :
        Answered(k) =>
            /\ \/ sources[k].attempted = Len(sources[k].lines) \div 3
               \/ /\ LimitReached
                  /\ sources[k].attempted < Len(sources[k].lines) \div 3
                  /\ sources[k].attempted \in
                        ParsedBlocks(k, sources[k].attempted)
            /\ StoredAre(k, ParsedBlocks(k, sources[k].attempted))

\* one source had lines left over after its last block, a later one was
\* cut short by the limit
C19_Witness ==
    /\ sources # <<>>
    /\ \E k \in DOMAIN sources :
          /\ Answered(k)
          /\ Len(sources[k].lines) % 3 # 0
          /\ sources[k].attempted = MaxBlocks
          /\ Len(sources[k].stores) = MaxBlocks - 1
    /\ \E k \in DOMAIN sources :
          /\ Answered(k)
          /\ sources[k].attempted > 0
          /\ sources[k].attempted < Len(sources[k].lines) \div 3

\* C21: create_morphology_art called while galaxy_data is None first
\* fetches galaxy data, so that the call leaves a table behind, and it does
\* not fail for want of data
C21_FetchesWhenNone ==
    (op = "art" /\ before.none) => (~galaxy_data.none /\ ~raised)

\* C22: in the sky map a finished create_morphology_art drew, a galaxy has
\* the elliptical shape exactly when its elliptical flag is 1 and the spiral
\* shape exactly when its spiral flag is 1, fracDeV_r = 0.5 included
FlaggedTable(t) ==
    /\ ~t.none
    /\ {"fracDeV_r", "elliptical", "spiral"} \subseteq Columns(t)

C22_ShapeFollowsFlags ==
    (op = "art" /\ ~raised /\ FlaggedTable(before)) =>
        \A i \in 1..before.n :
            /\ IsEllipticalShape(before, i)
                   <=> before.col["elliptical"][i] = 1
            /\ ~IsEllipticalShape(before, i)
                   <=> before.col["spiral"][i] = 1

\* C23: on a non-empty table redshift_to_color gives every input z a
\* defined normalised value in [0, 1], that is a position in plasma between
\* 0.3 and 1.0, also when all redshifts of the table are equal
DefinedPosition(p) ==
    /\ p.den > 0
    /\ 3 * p.den <= 10 * p.num
    /\ p.num <= p.den

C23_NormalisedDefined ==
    (color.asked /\ ~galaxy_data.none /\ galaxy_data.n > 0) =>
        \A i \in DOMAIN color.point : DefinedPosition(color.point[i])


\* C24 as stated: after every tick each satellite's point is the newest
\* element of its trail (both empty before the first position), and a
\* trail of two or more points is what its trail line shows, oldest first
PointIsNewest(nm) ==
    LET trail == TrailOf(satellite_trails, nm)
    IN IF trail = <<>> THEN satellite_points[nm] = <<>>
       ELSE satellite_points[nm] = trail[Len(trail)]

LineIsTrail(nm) ==
    LET trail == TrailOf(satellite_trails, nm)
    IN Len(trail) >= 2 => trail_lines[nm] = trail

C24_PointAndLineFollowTrail ==
    \A nm \in DOMAIN satellite_points : PointIsNewest(nm) /\ LineIsTrail(nm)

\* C24 amended: the same for a visualizer built with trail_length >= 1;
\* with trail_length = 0 the deques hold nothing and only the point moves
C24_PointAndLineFollowTrailKept ==
    trail_length >= 1 =>
        \A nm \in DOMAIN satellite_points :
            PointIsNewest(nm) /\ LineIsTrail(nm)

C24_Witness ==
    /\ trail_length >= 2
    /\ clock = MaxTicks
    /\ \E nm \in DOMAIN satellite_trails :
         /\ Len(satellite_trails[nm]) >= 2
         /\ Len(successes[nm]) > Len(satellite_trails[nm])
         /\ computed[nm] # <<>>
    /\ \E nm \in DOMAIN computed : computed[nm] = <<>>


\* C25: load_satellites leaves at most 100 satellites, and nothing is done
\* once the 100th is stored: a source is requested, and a block handed to
\* EarthSatellite, only while fewer than 100 names are held
StoredNames(k) == {sources[k].stores[q].name : q \in DOMAIN sources[k].stores}

\* the names held when block j of source k is reached
HeldBefore(k, j) ==
    UNION {StoredNames(i) : i \in 1..(k - 1)}
    \cup {sources[k].lines[3 * i - 2] : i \in ParsedBlocks(k, j - 1)}

C25_AtMostHundred ==
    /\ Cardinality(DOMAIN satellites) <= MaxSatellites
    /\ \A k \in DOMAIN sources :
          /\ sources[k].requested =>
                Cardinality(HeldBefore(k, 1)) < MaxSatellites
          /\ sources[k].attempted >= 1 =>
                Cardinality(HeldBefore(k, sources[k].attempted))
                    < MaxSatellites
          /\ ~sources[k].requested =>
                sources[k].attempted = 0 /\ sources[k].stores = <<>>

\* the limit was met inside one source, with a source left unrequested
C25_Witness ==
    /\ sources # <<>>
    /\ Cardinality(DOMAIN satellites) = MaxSatellites
    /\ \E k \in DOMAIN sources :
          /\ Answered(k)
          /\ sources[k].attempted >= 1
          /\ sources[k].attempted < Len(sources[k].lines) \div 3
          /\ k < Len(sources)
          /\ ~sources[k + 1].requested


\* C26: a source whose request fails gives nothing and the next source is
\* requested; a block that does not parse is not stored and the block
\* after it is still handed to EarthSatellite; load_satellites comes to
\* its end with a log entry for every source, and what the sources stored
\* is in self.satellites
SourceFailed(k) == sources[k].requested /\ sources[k].failed

LaterSources(k) == {i \in DOMAIN sources : i > k}

C26_FailuresAreSkipped ==
    sources # <<>> =>
        /\ Len(sources) = Len(SatelliteSources)
        /\ \A k \in DOMAIN sources :
              /\ SourceFailed(k) =>
                    /\ sources[k].stores = <<>>
                    /\ \A i \in LaterSources(k) :
                          i = k + 1 => sources[i].requested
              /\ Answered(k) =>
                    /\ StoredAre(k, ParsedBlocks(k, sources[k].attempted))
                    /\ \A j \in 1..sources[k].attempted :
                          (j \notin ParsedBlocks(k, j)
                           /\ j < Len(sources[k].lines) \div 3)
                              => sources[k].attempted >= j + 1
              /\ \A q \in DOMAIN sources[k].stores :
                    LET b == sources[k].stores[q]
                    IN /\ b.name \in DOMAIN satellites
                       /\ (\A i \in LaterSources(k) :
                               b.name \notin StoredNames(i))
                           => satellites[b.name].category
                                  = SatelliteSources[k]

\* a failed source between two that stored, and a source with a block
\* that did not parse followed by one that was stored
C26_Witness ==
    /\ sources # <<>>
    /\ \E k \in 1..(Len(sources) - 2) :
          /\ Answered(k)
          /\ sources[k].attempted >= 2
          /\ sources[k].stores # <<>>
          /\ SourceFailed(k + 1)
          /\ Answered(k + 2)
          /\ sources[k + 2].stores # <<>>
          /\ 1 \notin ParsedBlocks(k, 1)
          /\ 2 \in ParsedBlocks(k, sources[k].attempted)


\* C27: whenever update_animation runs, every loaded satellite has its
\* point and its trail line, made by the one run of setup_plot: the first
\* start runs it, a later start leaves the figure, the plot elements and
\* the trail histories as they are
Starts == ~running /\ running'

HasElements ==
    /\ fig
    /\ DOMAIN satellite_points = DOMAIN satellites
    /\ DOMAIN trail_lines = DOMAIN satellites

C27_ElementsCreatedOnce ==
    [][/\ Tick => (HasElements /\ setups = 1 /\ setups' = 1)
       /\ (Starts /\ ~fig) => (setups = 0 /\ setups' = 1 /\ fig')
       /\ (Starts /\ fig) =>
             UNCHANGED <<fig, setups, satellite_points, trail_lines,
                         satellite_trails>>]_vars

\* a tick of a second animation, on a trail begun in an earlier one
C27_Witness ==
    /\ running
    /\ setups = 1
    /\ started_at >= 1
    /\ clock > started_at
    /\ \E nm \in DOMAIN satellite_trails :
          /\ Len(satellite_trails[nm]) >= 2
          /\ satellite_trails[nm][1][2] <= started_at
          /\ satellite_trails[nm][Len(satellite_trails[nm])][2] > started_at
          /\ trail_lines[nm] = satellite_trails[nm]

\* C28: main() enters its menu loop only with a satellite loaded; the loop
\* ends only on the choice '4', a KeyboardInterrupt or the end of the
\* input; an invalid choice or another exception of a mode leads back to
\* the prompt
InLoop == pc \in {"prompt", "show"}

C28_MenuLoop ==
    [][/\ (pc = "main" /\ InLoop') => DOMAIN satellites # {}
       /\ (pc = "main" /\ DOMAIN satellites # {}) => InLoop'
       /\ (InLoop /\ ~InLoop') =>
             /\ pc' = "done"
             /\ \/ choice' = "4" /\ event' = "returned"
                \/ event' \in {"keyboard_interrupt", "eof"}
       /\ (InLoop /\ event' = "exception") => pc' = "prompt"
       /\ (InLoop /\ choice' \notin {"1", "2", "3", "4"}
              /\ event' = "returned") => pc' = "prompt"
       /\ pc \in {"done", "returned"} => pc' = pc]_vars

\* back at the prompt after a mode raised, in a program that drew before
C28_Witness ==
    /\ pc = "prompt"
    /\ event = "exception"
    /\ choice = "2"
    /\ fig
    /\ clock >= 1


====
